---- MODULE Spec2Model ----
(***************************************************************************)
(* Sidecar supervisor of the hardware monitor (services/sidecar.rs):       *)
(* the shared SidecarState store, the SidecarManager, the stdout reader    *)
(* threads, the restart watcher and start_sidecar, one action per lock     *)
(* acquisition or OS call.                                                 *)
(***************************************************************************)
EXTENDS Integers, Sequences, FiniteSets, TLC

(* ---------------- bounds of the model ---------------- *)
\* OS processes that can be created in one run (further spawns can only fail)
MaxProcs == 4
\* ticks of the monotonic clock (Instant) in one run
MaxTime == 1
\* calls of SidecarManager::stop by the manager's owner in one run
MaxStops == 2
\* pieces a reason handed to the classifier is made of
MaxWords == 3
\* ticks of the clock while the stall test is followed
MaxStallTicks == 22

(* ---------------- program constants ---------------- *)
MAX_RESTART_ATTEMPTS == 3

(* Option<T>: None is the empty sequence, Some(v) the one-element sequence *)
None == <<>>
Some(v) == <<v>>
IsSome(o) == o # <<>>
Unwrap(o) == o[1]

(* ---------------- SidecarStatus ---------------- *)
NotStarted == [kind |-> "NotStarted", msg |-> <<>>]
Running == [kind |-> "Running", msg |-> <<>>]
Stopped == [kind |-> "Stopped", msg |-> <<>>]
Error(m) == [kind |-> "Error", msg |-> m]

\* decimal rendering of {} in format!, for the numbers the program formats
Display(n) == CASE n = 0 -> "0" [] n = 1 -> "1" [] n = 2 -> "2" [] n = 3 -> "3"
                [] n = 4 -> "4" [] OTHER -> "?"

\* messages are sequences of the pieces format! concatenates
SpawnFailedMsg == <<"Failed to spawn sidecar: ", "os error">>
CaptureFailedMsg == <<"Failed to capture stdout">>
PathNotFoundMsg == <<"Sidecar binary not found. Expected at: ", "binaries/lhm-sidecar">>
GiveUpMsg == <<"Sidecar crashed ", Display(MAX_RESTART_ATTEMPTS), " times, giving up">>

(* ---------------- the wire format and SidecarData ---------------- *)
\* A line of the sidecar's stdout: padding (white space around the text) and
\* the text, which is blank, not JSON, or a JSON object given by its members
\* (an absent member is None).
CpuA == [name |-> Some("Intel Core i5"), temperature |-> Some(65),
         package_temperature |-> Some(65), core_temperatures |-> Some(<<Some(60), None>>),
         max_temperature |-> None, power |-> Some(35), core_powers |-> None]
GpuB == [name |-> Some("RTX"), vendor |-> Some("NVIDIA"), temperature |-> Some(70),
         hot_spot_temperature |-> None, power |-> None, core_clock |-> Some(1800),
         memory_clock |-> None, fan_speed |-> Some(70), load |-> Some(12)]

NoMembers == [cpu |-> None, gpu |-> None, timestamp |-> None, error |-> None]

LineA == [pad |-> FALSE, text |-> "object",
          obj |-> [cpu |-> Some(CpuA), gpu |-> Some(<<>>), timestamp |-> Some(1), error |-> None]]
LineB == [pad |-> TRUE, text |-> "object",
          obj |-> [cpu |-> None, gpu |-> Some(<<GpuB>>), timestamp |-> Some(2), error |-> None]]
LineE == [pad |-> FALSE, text |-> "object",
          obj |-> [cpu |-> None, gpu |-> None, timestamp |-> Some(3),
                   error |-> Some(<<"Admin rights required">>)]]
LineBlank == [pad |-> TRUE, text |-> "", obj |-> NoMembers]
LineGarbage == [pad |-> FALSE, text |-> "garbage", obj |-> NoMembers]
LineNoTimestamp == [pad |-> FALSE, text |-> "object",
          obj |-> [cpu |-> Some(CpuA), gpu |-> Some(<<GpuB>>), timestamp |-> None,
                   error |-> Some(<<"truncated">>)]]

Lines == {LineA, LineB, LineE, LineBlank, LineGarbage, LineNoTimestamp}

\* str::trim followed by is_empty
IsEmptyAfterTrim(line) == line.text = ""

\* #[serde(default)] on a Vec: an absent member decodes to the empty Vec
VecOrDefault(o) == IF IsSome(o) THEN Unwrap(o) ELSE <<>>

\* A JSON number decoded as f32 becomes the nearest f32, ties to even. The
\* numbers of the model are whole, and an f32 stands for its value: whole
\* numbers up to 2^24 in size are f32 values, larger ones are rounded to the
\* 24 significant bits an f32 has.
F32Exact == 16777216
RECURSIVE F32Ulp(_, _)
F32Ulp(n, u) == IF n \div u < F32Exact THEN u ELSE F32Ulp(n, 2 * u)
F32Round(n, u) ==
    LET q == n \div u
        r == n % u
    IN  IF 2 * r < u THEN q * u
        ELSE IF 2 * r > u THEN (q + 1) * u
        ELSE IF q % 2 = 0 THEN q * u ELSE (q + 1) * u
F32(n) == IF n < 0 THEN 0 - F32Round(0 - n, F32Ulp(0 - n, 1)) ELSE F32Round(n, F32Ulp(n, 1))

\* Option<f32> and Vec<Option<f32>> members
DecodeOptF32(o) == IF IsSome(o) THEN Some(F32(Unwrap(o))) ELSE None
DecodeVecOptF32(v) == [i \in DOMAIN v |-> DecodeOptF32(v[i])]

\* an absent Option<f32> member decoded as 0.0
DecodeCpu_DefaultsTemperature(c) ==
    [name |-> c.name,
     temperature |-> IF IsSome(c.temperature) THEN DecodeOptF32(c.temperature) ELSE Some(0),
     package_temperature |-> DecodeOptF32(c.package_temperature),
     core_temperatures |-> DecodeVecOptF32(VecOrDefault(c.core_temperatures)),
     max_temperature |-> DecodeOptF32(c.max_temperature),
     power |-> DecodeOptF32(c.power),
     core_powers |-> DecodeVecOptF32(VecOrDefault(c.core_powers))]
DecodeCpu(c) ==
    [name |-> c.name,
     temperature |-> DecodeOptF32(c.temperature),
     package_temperature |-> DecodeOptF32(c.package_temperature),
     core_temperatures |-> DecodeVecOptF32(VecOrDefault(c.core_temperatures)),
     max_temperature |-> DecodeOptF32(c.max_temperature),
     power |-> DecodeOptF32(c.power),
     core_powers |-> DecodeVecOptF32(VecOrDefault(c.core_powers))]

DecodeGpu(g) ==
    [name |-> g.name, vendor |-> g.vendor,
     temperature |-> DecodeOptF32(g.temperature),
     hot_spot_temperature |-> DecodeOptF32(g.hot_spot_temperature),
     power |-> DecodeOptF32(g.power),
     core_clock |-> DecodeOptF32(g.core_clock),
     memory_clock |-> DecodeOptF32(g.memory_clock),
     fan_speed |-> DecodeOptF32(g.fan_speed),
     load |-> DecodeOptF32(g.load)]
DecodeGpus(v) == [i \in DOMAIN v |-> DecodeGpu(v[i])]

\* serde_json::from_str::<SidecarData>: Ok(data) as Some(data), Err as None
FromStr(line) ==
    IF line.text # "object" THEN None
    ELSE IF ~IsSome(line.obj.timestamp) THEN None
    ELSE Some([cpu |-> IF IsSome(line.obj.cpu) THEN Some(DecodeCpu(Unwrap(line.obj.cpu))) ELSE None,
               gpu |-> DecodeGpus(VecOrDefault(line.obj.gpu)),
               timestamp |-> Unwrap(line.obj.timestamp),
               error |-> line.obj.error])

Snapshots == {Unwrap(FromStr(l)) : l \in {k \in Lines : IsSome(FromStr(k))}}

(* ---------------- state ---------------- *)
VARIABLES
    data,             \* SidecarState.data: Option<SidecarData>
    status,           \* SidecarState.status
    restart_count,    \* SidecarState.restart_count (u32)
    last_data_time,   \* SidecarState.last_data_time: Option<Instant>
    now,              \* the monotonic clock Instant::now() reads
    child,            \* SidecarManager.child: Option<Child>
    nprocs,           \* OS processes created so far; they are 1..nprocs
    proc,             \* proc[p]: "none", "alive" or "exited"
    main,             \* the thread that runs start_sidecar and owns the manager
    rd,               \* rd[p]: the reader thread of process p's stdout
    wd,               \* the sidecar_watcher thread
    got,              \* what the last get_data call of an accessor returned
    stops,            \* history: completed calls of SidecarManager::stop
    accepted,         \* history: some set_data call has stored its snapshot
    oks,              \* history: spawns that created a process and captured its stdout
    cls_status,       \* the SidecarStatus handed to SidecarStatusInfo::from
    cls_info,         \* Option: the SidecarStatusInfo it returned
    mrg_base,         \* the SystemStats monitor.get_system_stats() returned
    mrg_snap,         \* what sidecar_state.get_data() returned to the emitter
    mrg_stats,        \* Option: stats as emitted, after the merge
    dec_line,         \* a line handed to serde_json::from_str
    dec_result        \* Option: what from_str returned for it

store == <<data, status, restart_count, last_data_time>>
\* the variables of the pure functions checked on their own
pure == <<cls_status, cls_info, mrg_base, mrg_snap, mrg_stats, dec_line, dec_result>>
vars == <<data, status, restart_count, last_data_time, now, child, nprocs, proc,
          main, rd, wd, got, stops, accepted, oks, pure>>

Procs == 1..MaxProcs

NoReader == [pc |-> "none", own |-> "none", line |-> LineBlank, last |-> None, mon |-> 0]
MainInit == [pc |-> "path", path |-> FALSE, p |-> 0, err |-> <<>>]
\* seen and run are history: the polls that read Stopped, in all and since the
\* watcher last reset the counter
WatcherInit == [pc |-> "idle", p |-> 0, err |-> <<>>, seen |-> 0, run |-> 0]

\* SidecarState::new, SidecarManager::new, and no thread started yet
InitSidecar ==
    /\ data = None
    /\ status = NotStarted
    /\ restart_count = 0
    /\ last_data_time = None
    /\ now = 0
    /\ child = None
    /\ nprocs = 0
    /\ proc = [p \in Procs |-> "none"]
    /\ main = MainInit
    /\ rd = [p \in Procs |-> NoReader]
    /\ wd = WatcherInit
    /\ got = <<>>
    /\ stops = 0
    /\ accepted = FALSE
    /\ oks = 0

\* no pure function is under check
InitPure ==
    /\ cls_status = None /\ cls_info = None
    /\ mrg_base = None /\ mrg_snap = None /\ mrg_stats = None
    /\ dec_line = None /\ dec_result = None

Init == InitSidecar /\ InitPure

(* ---------------- SidecarState methods ---------------- *)
\* can_restart with the budget one too small
can_restart_one_short(count) == count + 1 < MAX_RESTART_ATTEMPTS

\* can_restart with <= for <
can_restart_inclusive(count) == count <= MAX_RESTART_ATTEMPTS

\* can_restart on the count get_restart_count returned
can_restart(count) == count < MAX_RESTART_ATTEMPTS

\* increment_restart_count: *guard += 1 (a u32; the watcher, its only caller,
\* increments below MAX_RESTART_ATTEMPTS only, far from the wrap)
increment_restart_count(count) == count + 1

STALL_TIMEOUT_SECS == 10
\* the clock counts half seconds; Duration::as_secs drops the fraction
TicksPerSecond == 2
as_secs(ticks) == ticks \div TicksPerSecond
\* is_stalled taking a store that never received data for stalled
is_stalled_unless_fed(last, t) ==
    IF IsSome(last) THEN as_secs(t - Unwrap(last)) > STALL_TIMEOUT_SECS ELSE TRUE
\* SidecarState::is_stalled, read at clock value t
is_stalled(last, t) ==
    IF IsSome(last) THEN as_secs(t - Unwrap(last)) > STALL_TIMEOUT_SECS ELSE FALSE

\* a comparison that lets an Error status stand
NeedsRunning_UnlessError(st) == st # Running /\ st.kind # "Error"

\* is_running-style comparison the readers make before set_status(Running)
NeedsRunning(st) == st # Running

(* ---------------- the environment ---------------- *)
\* time passes
Tick ==
    /\ now < MaxTime
    /\ now' = now + 1
    /\ UNCHANGED <<data, status, restart_count, last_data_time, child, nprocs, proc,
                   main, rd, wd, got, stops, accepted, oks, pure>>

\* a sidecar process exits or crashes on its own; its stdout reaches end-of-stream
ProcExit(p) ==
    /\ proc[p] = "alive"
    /\ proc' = [proc EXCEPT ![p] = "exited"]
    /\ UNCHANGED <<data, status, restart_count, last_data_time, now, child, nprocs,
                   main, rd, wd, got, stops, accepted, oks, pure>>

\* an accessor thread calls get_data: one read lock, the whole value cloned
GetData ==
    /\ got' = <<data>>
    /\ UNCHANGED <<data, status, restart_count, last_data_time, now, child, nprocs, proc,
                   main, rd, wd, stops, accepted, oks, pure>>

(* ---------------- SidecarManager::spawn_process, called by start_sidecar ---------------- *)
\* get_sidecar_path: a path is found, or none is
MainPath ==
    /\ main.pc = "path"
    /\ \/ main' = [main EXCEPT !.pc = "spawn", !.path = TRUE]
       \/ main' = [main EXCEPT !.pc = "fail", !.path = FALSE, !.err = PathNotFoundMsg]
    /\ UNCHANGED <<data, status, restart_count, last_data_time, now, child, nprocs, proc,
                   rd, wd, got, stops, accepted, oks, pure>>

\* spawn_process storing the child before it takes the child's stdout
MainSpawn_TrackBeforeCapture ==
    /\ main.pc = "spawn"
    /\ \/ /\ main' = [main EXCEPT !.pc = "fail", !.err = SpawnFailedMsg]
          /\ UNCHANGED <<status, child, nprocs, proc, oks>>
       \/ /\ nprocs < MaxProcs
          /\ nprocs' = nprocs + 1
          /\ proc' = [proc EXCEPT ![nprocs + 1] = "alive"]
          /\ child' = Some(nprocs + 1)
          /\ main' = [main EXCEPT !.pc = "fail", !.err = CaptureFailedMsg]
          /\ UNCHANGED <<status, oks>>
       \/ /\ nprocs < MaxProcs
          /\ nprocs' = nprocs + 1
          /\ proc' = [proc EXCEPT ![nprocs + 1] = "alive"]
          /\ child' = Some(nprocs + 1)
          /\ status' = Running
          /\ main' = [main EXCEPT !.pc = "thread", !.p = nprocs + 1]
          /\ oks' = oks + 1
    /\ UNCHANGED <<data, restart_count, last_data_time, now, rd, wd, got, stops, accepted,
                   pure>>
\* spawn_process up to set_status(Running): Command::spawn fails; or the process is
\* created and its stdout is not captured; or the child is tracked and the status set
MainSpawn ==
    /\ main.pc = "spawn"
    /\ \/ /\ main' = [main EXCEPT !.pc = "fail", !.err = SpawnFailedMsg]
          /\ UNCHANGED <<status, child, nprocs, proc, oks>>
       \/ /\ nprocs < MaxProcs
          /\ nprocs' = nprocs + 1
          /\ proc' = [proc EXCEPT ![nprocs + 1] = "alive"]
          /\ main' = [main EXCEPT !.pc = "fail", !.err = CaptureFailedMsg]
          /\ UNCHANGED <<status, child, oks>>
       \/ /\ nprocs < MaxProcs
          /\ nprocs' = nprocs + 1
          /\ proc' = [proc EXCEPT ![nprocs + 1] = "alive"]
          /\ child' = Some(nprocs + 1)
          /\ status' = Running
          /\ main' = [main EXCEPT !.pc = "thread", !.p = nprocs + 1]
          /\ oks' = oks + 1
    /\ UNCHANGED <<data, restart_count, last_data_time, now, rd, wd, got, stops, accepted,
                   pure>>

\* spawn_process: thread::spawn of the reader, then Ok(())
MainThread ==
    /\ main.pc = "thread"
    /\ rd' = [rd EXCEPT ![main.p] = [NoReader EXCEPT !.pc = "read", !.own = "manager"]]
    /\ main' = [main EXCEPT !.pc = "reset", !.p = 0]
    /\ UNCHANGED <<data, status, restart_count, last_data_time, now, child, nprocs, proc,
                   wd, got, stops, accepted, oks, pure>>

\* start_sidecar, Ok(()) arm: reset_restart_count
MainReset ==
    /\ main.pc = "reset"
    /\ restart_count' = 0
    /\ main' = [main EXCEPT !.pc = "watch"]
    /\ UNCHANGED <<data, status, last_data_time, now, child, nprocs, proc,
                   rd, wd, got, stops, accepted, oks, pure>>

\* start_sidecar, both Err arms: set_status(Error(e))
MainFail ==
    /\ main.pc = "fail"
    /\ status' = Error(main.err)
    /\ main' = [main EXCEPT !.pc = "watch", !.err = <<>>]
    /\ UNCHANGED <<data, restart_count, last_data_time, now, child, nprocs, proc,
                   rd, wd, got, stops, accepted, oks, pure>>

\* start_sidecar starting the watcher thread whatever the path resolution gave
MainWatch_Always ==
    /\ main.pc = "watch"
    /\ wd' = [wd EXCEPT !.pc = "poll"]
    /\ main' = [main EXCEPT !.pc = "done"]
    /\ UNCHANGED <<data, status, restart_count, last_data_time, now, child, nprocs, proc,
                   rd, got, stops, accepted, oks, pure>>
\* start_sidecar: the watcher thread is started if the path was resolved
MainWatch ==
    /\ main.pc = "watch"
    /\ wd' = IF main.path THEN [wd EXCEPT !.pc = "poll"] ELSE wd
    /\ main' = [main EXCEPT !.pc = "done"]
    /\ UNCHANGED <<data, status, restart_count, last_data_time, now, child, nprocs, proc,
                   rd, got, stops, accepted, oks, pure>>

(* ---------------- the reader thread of process p ---------------- *)
\* the snapshot reader p holds between its decoding and the end of set_data
Held(p) == Unwrap(FromStr(rd[p].line))

\* history of reader p: 1 after an accepted line, 2 after accepted then dropped
\* lines, 3 after accepted, dropped, accepted
MonDrop(m) == IF m \in {1, 3} THEN 2 ELSE m
MonAccept(m) == IF m = 2 THEN 3 ELSE 1

\* reader.lines().next(): a line, end-of-stream once the process has exited, or
\* a read error
ReaderRead(p) ==
    /\ rd[p].pc = "read"
    /\ \/ \E l \in Lines : rd' = [rd EXCEPT ![p].pc = "line", ![p].line = l]
       \/ /\ proc[p] = "exited"
          /\ rd' = [rd EXCEPT ![p].pc = "end", ![p].last = None, ![p].mon = 0]
       \/ rd' = [rd EXCEPT ![p].pc = "end", ![p].last = None, ![p].mon = 0]
    /\ UNCHANGED <<data, status, restart_count, last_data_time, now, child, nprocs, proc,
                   main, wd, got, stops, accepted, oks, pure>>

\* the Err arm of from_str clearing the stored snapshot
ReaderParse_ErrClearsData(p) ==
    /\ rd[p].pc = "line"
    /\ IF IsEmptyAfterTrim(rd[p].line) \/ ~IsSome(FromStr(rd[p].line))
       THEN /\ rd' = [rd EXCEPT ![p].pc = "read", ![p].line = LineBlank,
                                ![p].mon = MonDrop(rd[p].mon)]
            /\ data' = IF IsEmptyAfterTrim(rd[p].line) THEN data ELSE None
       ELSE /\ rd' = [rd EXCEPT ![p].pc = "check"]
            /\ data' = data
    /\ UNCHANGED <<status, restart_count, last_data_time, now, child, nprocs, proc,
                   main, wd, got, stops, accepted, oks, pure>>

\* trim, the is_empty test and serde_json::from_str on the line just read
ReaderParse(p) ==
    /\ rd[p].pc = "line"
    /\ IF IsEmptyAfterTrim(rd[p].line) \/ ~IsSome(FromStr(rd[p].line))
       THEN rd' = [rd EXCEPT ![p].pc = "read", ![p].line = LineBlank,
                             ![p].mon = MonDrop(rd[p].mon)]
       ELSE rd' = [rd EXCEPT ![p].pc = "check"]
    /\ UNCHANGED <<data, status, restart_count, last_data_time, now, child, nprocs, proc,
                   main, wd, got, stops, accepted, oks, pure>>

\* set_data without its check of data.error
SetDataEntry_NoErrorCheck(d) == "sd_time"

\* where set_data starts for a snapshot: set_status(Error) only with an error member
SetDataEntry(d) == IF IsSome(d.error) THEN "sd_err" ELSE "sd_time"

\* if state.get_status() != SidecarStatus::Running
ReaderCheck(p) ==
    /\ rd[p].pc = "check"
    /\ rd' = [rd EXCEPT ![p].pc = IF NeedsRunning(status) THEN "setrun"
                                  ELSE SetDataEntry(Held(p))]
    /\ UNCHANGED <<data, status, restart_count, last_data_time, now, child, nprocs, proc,
                   main, wd, got, stops, accepted, oks, pure>>

\* state.set_status(SidecarStatus::Running)
ReaderSetRunning(p) ==
    /\ rd[p].pc = "setrun"
    /\ status' = Running
    /\ rd' = [rd EXCEPT ![p].pc = SetDataEntry(Held(p))]
    /\ UNCHANGED <<data, restart_count, last_data_time, now, child, nprocs, proc,
                   main, wd, got, stops, accepted, oks, pure>>

\* set_data: self.set_status(SidecarStatus::Error(err.clone()))
SetDataError(p) ==
    /\ rd[p].pc = "sd_err"
    /\ status' = Error(Unwrap(Held(p).error))
    /\ rd' = [rd EXCEPT ![p].pc = "sd_time"]
    /\ UNCHANGED <<data, restart_count, last_data_time, now, child, nprocs, proc,
                   main, wd, got, stops, accepted, oks, pure>>

\* set_data: *guard = Some(Instant::now())
SetDataTime(p) ==
    /\ rd[p].pc = "sd_time"
    /\ last_data_time' = Some(now)
    /\ rd' = [rd EXCEPT ![p].pc = "sd_data"]
    /\ UNCHANGED <<data, status, restart_count, now, child, nprocs, proc,
                   main, wd, got, stops, accepted, oks, pure>>

\* set_data filling the stored record member by member, keeping a member the new
\* snapshot lacks
SetDataStore_MergeFields(p) ==
    /\ rd[p].pc = "sd_data"
    /\ data' = IF IsSome(data)
               THEN Some([Held(p) EXCEPT !.cpu = IF IsSome(Held(p).cpu) THEN Held(p).cpu
                                                ELSE Unwrap(data).cpu])
               ELSE Some(Held(p))
    /\ accepted' = TRUE
    /\ rd' = [rd EXCEPT ![p].pc = "read", ![p].line = LineBlank,
                        ![p].last = Some(Held(p)), ![p].mon = MonAccept(rd[p].mon)]
    /\ UNCHANGED <<status, restart_count, last_data_time, now, child, nprocs, proc,
                   main, wd, got, stops, oks, pure>>

\* set_data storing only into an empty store
SetDataStore_KeepFirst(p) ==
    /\ rd[p].pc = "sd_data"
    /\ data' = IF IsSome(data) THEN data ELSE Some(Held(p))
    /\ accepted' = TRUE
    /\ rd' = [rd EXCEPT ![p].pc = "read", ![p].line = LineBlank,
                        ![p].last = Some(Held(p)), ![p].mon = MonAccept(rd[p].mon)]
    /\ UNCHANGED <<status, restart_count, last_data_time, now, child, nprocs, proc,
                   main, wd, got, stops, oks, pure>>

\* set_data: *guard = Some(data), and the reader goes on to the next line
SetDataStore(p) ==
    /\ rd[p].pc = "sd_data"
    /\ data' = Some(Held(p))
    /\ accepted' = TRUE
    /\ rd' = [rd EXCEPT ![p].pc = "read", ![p].line = LineBlank,
                        ![p].last = Some(Held(p)), ![p].mon = MonAccept(rd[p].mon)]
    /\ UNCHANGED <<status, restart_count, last_data_time, now, child, nprocs, proc,
                   main, wd, got, stops, oks, pure>>

\* the reader's last statement writing Stopped over Running only
ReaderEnd_OnlyOverRunning(p) ==
    /\ rd[p].pc = "end"
    /\ status' = IF status = Running THEN Stopped ELSE status
    /\ rd' = [rd EXCEPT ![p].pc = IF rd[p].own = "standalone" THEN "wait" ELSE "done"]
    /\ UNCHANGED <<data, restart_count, last_data_time, now, child, nprocs, proc,
                   main, wd, got, stops, accepted, oks, pure>>
\* after the loop: set_status(Stopped); the reader of spawn_standalone then waits
\* for its child
ReaderEnd(p) ==
    /\ rd[p].pc = "end"
    /\ status' = Stopped
    /\ rd' = [rd EXCEPT ![p].pc = IF rd[p].own = "standalone" THEN "wait" ELSE "done"]
    /\ UNCHANGED <<data, restart_count, last_data_time, now, child, nprocs, proc,
                   main, wd, got, stops, accepted, oks, pure>>

\* child.wait() of the spawn_standalone reader returns once the process has exited
ReaderWait(p) ==
    /\ rd[p].pc = "wait"
    /\ proc[p] = "exited"
    /\ rd' = [rd EXCEPT ![p].pc = "done"]
    /\ UNCHANGED <<data, status, restart_count, last_data_time, now, child, nprocs, proc,
                   main, wd, got, stops, accepted, oks, pure>>

(* ---------------- sidecar_watcher ---------------- *)
\* the poll with the Error arm restarting like the Stopped arm
WatcherPoll_RetryOnError ==
    /\ wd.pc = "poll"
    /\ wd' = CASE status = Stopped -> [wd EXCEPT !.pc = "can", !.seen = wd.seen + 1,
                                                 !.run = wd.run + 1]
               [] status = Running -> [wd EXCEPT !.pc = "count"]
               [] status = NotStarted -> wd
               [] OTHER -> [wd EXCEPT !.pc = "can"]
    /\ UNCHANGED <<data, status, restart_count, last_data_time, now, child, nprocs, proc,
                   main, rd, got, stops, accepted, oks, pure>>

\* let status = state.get_status(); match status
WatcherPoll ==
    /\ wd.pc = "poll"
    /\ wd' = CASE status = Stopped -> [wd EXCEPT !.pc = "can", !.seen = wd.seen + 1,
                                                 !.run = wd.run + 1]
               [] status = Running -> [wd EXCEPT !.pc = "count"]
               [] status = NotStarted -> wd
               [] OTHER -> [wd EXCEPT !.pc = "done"]
    /\ UNCHANGED <<data, status, restart_count, last_data_time, now, child, nprocs, proc,
                   main, rd, got, stops, accepted, oks, pure>>

\* Stopped arm: if state.can_restart()
WatcherCanRestart ==
    /\ wd.pc = "can"
    /\ wd' = [wd EXCEPT !.pc = IF can_restart(restart_count) THEN "inc" ELSE "giveup"]
    /\ UNCHANGED <<data, status, restart_count, last_data_time, now, child, nprocs, proc,
                   main, rd, got, stops, accepted, oks, pure>>

\* let count = state.increment_restart_count()
WatcherIncrement ==
    /\ wd.pc = "inc"
    /\ restart_count' = increment_restart_count(restart_count)
    /\ wd' = [wd EXCEPT !.pc = "spawn"]
    /\ UNCHANGED <<data, status, last_data_time, now, child, nprocs, proc,
                   main, rd, got, stops, accepted, oks, pure>>

\* spawn_standalone without its set_status(Running)
WatcherSpawn_NoSetStatus ==
    /\ wd.pc = "spawn"
    /\ \/ /\ wd' = [wd EXCEPT !.pc = "fail", !.err = SpawnFailedMsg]
          /\ UNCHANGED <<nprocs, proc, oks>>
       \/ /\ nprocs < MaxProcs
          /\ nprocs' = nprocs + 1
          /\ proc' = [proc EXCEPT ![nprocs + 1] = "alive"]
          /\ wd' = [wd EXCEPT !.pc = "fail", !.err = CaptureFailedMsg]
          /\ UNCHANGED oks
       \/ /\ nprocs < MaxProcs
          /\ nprocs' = nprocs + 1
          /\ proc' = [proc EXCEPT ![nprocs + 1] = "alive"]
          /\ wd' = [wd EXCEPT !.pc = "thread", !.p = nprocs + 1]
          /\ oks' = oks + 1
    /\ UNCHANGED <<data, status, restart_count, last_data_time, now, child, main, rd, got,
                   stops, accepted, pure>>

\* spawn_standalone writing Running before it takes the child's stdout
WatcherSpawn_RunningBeforeCapture ==
    /\ wd.pc = "spawn"
    /\ \/ /\ wd' = [wd EXCEPT !.pc = "fail", !.err = SpawnFailedMsg]
          /\ UNCHANGED <<status, nprocs, proc, oks>>
       \/ /\ nprocs < MaxProcs
          /\ nprocs' = nprocs + 1
          /\ proc' = [proc EXCEPT ![nprocs + 1] = "alive"]
          /\ status' = Running
          /\ wd' = [wd EXCEPT !.pc = "fail", !.err = CaptureFailedMsg]
          /\ UNCHANGED oks
       \/ /\ nprocs < MaxProcs
          /\ nprocs' = nprocs + 1
          /\ proc' = [proc EXCEPT ![nprocs + 1] = "alive"]
          /\ status' = Running
          /\ wd' = [wd EXCEPT !.pc = "thread", !.p = nprocs + 1]
          /\ oks' = oks + 1
    /\ UNCHANGED <<data, restart_count, last_data_time, now, child, main, rd, got, stops, accepted,
                   pure>>
\* spawn_standalone up to set_status(Running), after the 2 s sleep: Command::spawn
\* fails; or the process is created and its stdout is not captured; or the status is set
WatcherSpawn ==
    /\ wd.pc = "spawn"
    /\ \/ /\ wd' = [wd EXCEPT !.pc = "fail", !.err = SpawnFailedMsg]
          /\ UNCHANGED <<status, nprocs, proc, oks>>
       \/ /\ nprocs < MaxProcs
          /\ nprocs' = nprocs + 1
          /\ proc' = [proc EXCEPT ![nprocs + 1] = "alive"]
          /\ wd' = [wd EXCEPT !.pc = "fail", !.err = CaptureFailedMsg]
          /\ UNCHANGED <<status, oks>>
       \/ /\ nprocs < MaxProcs
          /\ nprocs' = nprocs + 1
          /\ proc' = [proc EXCEPT ![nprocs + 1] = "alive"]
          /\ status' = Running
          /\ wd' = [wd EXCEPT !.pc = "thread", !.p = nprocs + 1]
          /\ oks' = oks + 1
    /\ UNCHANGED <<data, restart_count, last_data_time, now, child, main, rd, got, stops, accepted,
                   pure>>

\* a restart whose spawn succeeded resetting the counter at once
WatcherThread_ResetsCount ==
    /\ wd.pc = "thread"
    /\ rd' = [rd EXCEPT ![wd.p] = [NoReader EXCEPT !.pc = "read", !.own = "standalone"]]
    /\ wd' = [wd EXCEPT !.pc = "poll", !.p = 0]
    /\ restart_count' = 0
    /\ UNCHANGED <<data, status, last_data_time, now, child, nprocs, proc,
                   main, got, stops, accepted, oks, pure>>
\* spawn_standalone: thread::spawn of the reader, then Ok(()) and the next poll
WatcherThread ==
    /\ wd.pc = "thread"
    /\ rd' = [rd EXCEPT ![wd.p] = [NoReader EXCEPT !.pc = "read", !.own = "standalone"]]
    /\ wd' = [wd EXCEPT !.pc = "poll", !.p = 0]
    /\ UNCHANGED <<data, status, restart_count, last_data_time, now, child, nprocs, proc,
                   main, got, stops, accepted, oks, pure>>

\* the Err arm of a restart ending the watcher
WatcherFail_Break ==
    /\ wd.pc = "fail"
    /\ status' = Error(wd.err)
    /\ wd' = [wd EXCEPT !.pc = "done", !.err = <<>>]
    /\ UNCHANGED <<data, restart_count, last_data_time, now, child, nprocs, proc,
                   main, rd, got, stops, accepted, oks, pure>>
\* Err(e) arm: state.set_status(SidecarStatus::Error(e)), then the next poll
WatcherFail ==
    /\ wd.pc = "fail"
    /\ status' = Error(wd.err)
    /\ wd' = [wd EXCEPT !.pc = "poll", !.err = <<>>]
    /\ UNCHANGED <<data, restart_count, last_data_time, now, child, nprocs, proc,
                   main, rd, got, stops, accepted, oks, pure>>

\* else arm: set_status(Error("Sidecar crashed {} times, giving up")); break
WatcherGiveUp ==
    /\ wd.pc = "giveup"
    /\ status' = Error(GiveUpMsg)
    /\ wd' = [wd EXCEPT !.pc = "done"]
    /\ UNCHANGED <<data, restart_count, last_data_time, now, child, nprocs, proc,
                   main, rd, got, stops, accepted, oks, pure>>

\* Running arm: if state.get_restart_count() > 0
WatcherCount ==
    /\ wd.pc = "count"
    /\ wd' = [wd EXCEPT !.pc = IF restart_count > 0 THEN "reset" ELSE "poll"]
    /\ UNCHANGED <<data, status, restart_count, last_data_time, now, child, nprocs, proc,
                   main, rd, got, stops, accepted, oks, pure>>

\* state.reset_restart_count()
WatcherReset ==
    /\ wd.pc = "reset"
    /\ restart_count' = 0
    /\ wd' = [wd EXCEPT !.pc = "poll", !.run = 0]
    /\ UNCHANGED <<data, status, last_data_time, now, child, nprocs, proc,
                   main, rd, got, stops, accepted, oks, pure>>

(* ---------------- SidecarManager::stop ---------------- *)
\* if let Some(child) = self.child: child.kill(); child.wait()
StopKill ==
    /\ main.pc = "done"
    /\ stops < MaxStops
    /\ proc' = IF IsSome(child) THEN [proc EXCEPT ![Unwrap(child)] = "exited"] ELSE proc
    /\ main' = [main EXCEPT !.pc = "stop"]
    /\ UNCHANGED <<data, status, restart_count, last_data_time, now, child, nprocs,
                   rd, wd, got, stops, accepted, oks, pure>>

\* stop with set_status(Stopped) inside the if let Some(child)
StopSet_OnlyWhenTracked ==
    /\ main.pc = "stop"
    /\ child' = None
    /\ status' = IF IsSome(child) THEN Stopped ELSE status
    /\ stops' = stops + 1
    /\ main' = [main EXCEPT !.pc = "done"]
    /\ UNCHANGED <<data, restart_count, last_data_time, now, nprocs, proc,
                   rd, wd, got, accepted, oks, pure>>

\* self.child = None; self.state.set_status(SidecarStatus::Stopped)
StopSet ==
    /\ main.pc = "stop"
    /\ child' = None
    /\ status' = Stopped
    /\ stops' = stops + 1
    /\ main' = [main EXCEPT !.pc = "done"]
    /\ UNCHANGED <<data, restart_count, last_data_time, now, nprocs, proc,
                   rd, wd, got, accepted, oks, pure>>

(* ---------------- specifications ---------------- *)
Main == MainPath \/ MainSpawn \/ MainThread \/ MainReset \/ MainFail \/ MainWatch

\* the reader loop both spawn_process and spawn_standalone start
ReaderLoop(p) ==
    \/ ReaderRead(p) \/ ReaderParse(p) \/ ReaderCheck(p) \/ ReaderSetRunning(p)
    \/ SetDataError(p) \/ SetDataTime(p) \/ SetDataStore(p)
    \/ ReaderEnd(p)

Reader(p) == ReaderLoop(p) \/ ReaderWait(p)

Watcher ==
    \/ WatcherPoll \/ WatcherCanRestart \/ WatcherIncrement \/ WatcherSpawn
    \/ WatcherThread \/ WatcherFail \/ WatcherGiveUp \/ WatcherCount \/ WatcherReset

\* the system start_sidecar starts: the manager is leaked, stop is never called
Next ==
    \/ Main
    \/ \E p \in Procs : Reader(p)
    \/ Watcher
    \/ \E p \in Procs : ProcExit(p)

Spec == Init /\ [][Next]_vars

\* an owner that keeps the manager and calls stop while the watcher is still in
\* its initial sleep
NextStop ==
    \/ Main
    \/ \E p \in Procs : ReaderLoop(p)
    \/ \E p \in Procs : ProcExit(p)
    \/ StopKill
    \/ StopSet

SpecStop == Init /\ [][NextStop]_vars

\* the start_sidecar system with the two threads that only sleep and take locks,
\* start_sidecar's and the watcher's, scheduled fairly
SpecFair == Spec /\ WF_vars(Main) /\ WF_vars(Watcher)

\* the system during the watcher's initial sleep, with the clock running and an
\* accessor thread calling get_data
NextAccess ==
    \/ Main
    \/ \E p \in Procs : ReaderLoop(p)
    \/ \E p \in Procs : ProcExit(p)
    \/ GetData
    \/ Tick

SpecAccess == Init /\ [][NextAccess]_vars

(* ---------------- the restart budget ---------------- *)
\* C1: in the system start_sidecar starts, the restart counter is always an
\* integer from 0 to the budget of 3.
C1_RestartCountWithinBudget ==
    restart_count \in 0..MAX_RESTART_ATTEMPTS

\* the counter at the budget when the watcher reads Stopped once more
C1_Witness ==
    /\ restart_count = MAX_RESTART_ATTEMPTS
    /\ wd.pc = "can"
    /\ status = Stopped

\* C2 as stated: once the watcher has read Stopped four times and dealt with the
\* fourth, the status is the give-up Error and the watcher has ended.
C2_Original ==
    wd.seen = MAX_RESTART_ATTEMPTS + 1 =>
        \/ wd.pc \in {"can", "giveup"}
        \/ wd.pc = "done" /\ status = Error(GiveUpMsg)

\* C2 amended: four reads of Stopped with no reset of the counter between them
\* find the counter at 3, and end with the give-up Error, whose message names
\* the count 3, and with the watcher ended.
C2_FourStopsWithoutResetGiveUp ==
    wd.run = MAX_RESTART_ATTEMPTS + 1 =>
        /\ restart_count = MAX_RESTART_ATTEMPTS
        /\ \/ wd.pc \in {"can", "giveup"}
           \/ /\ wd.pc = "done"
              /\ status = Error(GiveUpMsg)
              /\ status.msg[2] = "3"

C2_Witness ==
    /\ wd.run = MAX_RESTART_ATTEMPTS + 1
    /\ wd.pc = "done"
    /\ status = Error(GiveUpMsg)

\* C3: when the watcher reads Stopped with the counter at 3 it goes to the
\* give-up arm, which spawns nothing, sets the give-up Error and ends the
\* watcher; after that no process is created, the watcher stays ended and the
\* status stays that Error.
C3_BudgetExhaustedIsFinal ==
    [][/\ (wd.pc = "can" /\ restart_count = MAX_RESTART_ATTEMPTS /\ wd' # wd)
            => wd'.pc = "giveup"
       /\ (wd.pc = "giveup" /\ wd' # wd)
            => (status' = Error(GiveUpMsg) /\ wd'.pc = "done" /\ nprocs' = nprocs)
       /\ (wd.pc = "done" /\ status = Error(GiveUpMsg))
            => (status' = status /\ wd' = wd /\ nprocs' = nprocs /\ main' = main)]_vars

C3_Witness ==
    /\ wd.pc = "done"
    /\ status = Error(GiveUpMsg)
    /\ nprocs = MAX_RESTART_ATTEMPTS + 1

(* ---------------- the Error status ---------------- *)
\* the reader threads still in their loop or about to write Stopped
AliveReaders == {p \in Procs : rd[p].pc \notin {"none", "wait", "done"}}

\* C4 as stated: once the status is Error, no step makes it Running, Stopped or
\* NotStarted.
C4_Original ==
    [][status.kind = "Error" => status'.kind \notin {"Running", "Stopped", "NotStarted"}]_vars

\* C4 amended: in the system start_sidecar starts, a status Error is changed
\* only by a reader thread that is still alive (set_status(Running) before an
\* accepted line, set_data of a line with an error member, set_status(Stopped)
\* at the end of its stream); no step of the watcher or of start_sidecar changes
\* it, so an Error written while no reader is alive stays.
C4_ErrorChangedOnlyByLiveReader ==
    [][(status.kind = "Error" /\ status' # status) =>
          /\ \E p \in AliveReaders :
                /\ rd[p].pc \in {"setrun", "sd_err", "end"}
                /\ rd'[p] # rd[p]
          /\ wd' = wd
          /\ main' = main]_vars

\* a spawn failure of the watcher left Error with no reader alive, and the
\* watcher has ended on it
C4_Witness ==
    /\ status = Error(SpawnFailedMsg)
    /\ AliveReaders = {}
    /\ wd.pc = "done"
    /\ nprocs > 0

\* C5: when a reader has finished processing a decoded line that has an error
\* member msg, and until it processes its next line, get_status() is Error(msg)
\* and get_data() is that line's whole snapshot.
C5_ErrorLineSetsStatusAndData ==
    \A p \in Procs :
        (/\ rd[p].pc \in {"read", "line"}
         /\ IsSome(rd[p].last)
         /\ IsSome(Unwrap(rd[p].last).error))
        => /\ status = Error(Unwrap(Unwrap(rd[p].last).error))
           /\ data = rd[p].last
           /\ Unwrap(data).timestamp = Unwrap(rd[p].last).timestamp
           /\ Unwrap(data).gpu = Unwrap(rd[p].last).gpu
           /\ Unwrap(data).cpu = Unwrap(rd[p].last).cpu

C5_Witness ==
    \E p \in Procs :
        /\ rd[p].pc = "read"
        /\ rd[p].last = FromStr(LineE)
        /\ status = Error(<<"Admin rights required">>)
        /\ data = FromStr(LineE)

(* ---------------- lines the reader drops ---------------- *)
\* a line that is empty after trimming or that from_str rejects
Dropped(line) == IsEmptyAfterTrim(line) \/ ~IsSome(FromStr(line))

\* C6: the step that processes a line that is empty after trimming, or that
\* does not decode, leaves the snapshot, the status, the restart counter and
\* the last-data instant as they were; and after an accepted line, dropped
\* lines and a second accepted line the data is the second line's snapshot.
C6_DroppedLineChangesNothing ==
    /\ [][\A p \in Procs :
            (rd[p].pc = "line" /\ rd'[p] # rd[p] /\ Dropped(rd[p].line))
            => (UNCHANGED store /\ rd'[p].pc = "read")]_vars
    /\ [](\A p \in Procs :
            (rd[p].mon = 3 /\ rd[p].pc \in {"read", "line"}) => data = rd[p].last)

\* a reader has stored a line, dropped one and stored a second one, later on
\* the clock than the store's construction
C6_Witness ==
    \E p \in Procs :
        /\ rd[p].mon = 3
        /\ rd[p].pc = "read"
        /\ data = rd[p].last
        /\ last_data_time = Some(MaxTime)

(* ---------------- restart after process death ---------------- *)
\* the watcher is in spawn_standalone or has just returned from it
RestartAttempt == wd.pc \in {"spawn", "thread", "fail"}

\* C7 as stated: whenever the status is Stopped with the counter below 3, the
\* watcher, scheduled fairly, eventually attempts a respawn.
C7_Original ==
    (status = Stopped /\ restart_count < MAX_RESTART_ATTEMPTS) ~> RestartAttempt

\* C7 amended: the same, provided the watcher has not ended (it ends when a
\* poll reads an Error status, such as the one an error line sets).
C7_StoppedLeadsToRestartWhileWatching ==
    (status = Stopped /\ restart_count < MAX_RESTART_ATTEMPTS /\ wd.pc # "done")
        ~> RestartAttempt

\* the watcher attempts a restart of a process that stopped after an earlier
\* restart and an error line
C7_Witness ==
    /\ wd.pc = "spawn"
    /\ restart_count = 2
    /\ IsSome(data)
    /\ IsSome(Unwrap(data).error)

(* ---------------- get_data and set_data ---------------- *)
\* C8: a get_data call returns the store's data of that moment, which is none
\* or the whole snapshot of one decoded line: the data only ever changes to the
\* whole argument of the set_data call that writes it.
C8_GetDataReturnsWholeSnapshot ==
    /\ [](got \in {<<>>, <<None>>} \cup {<<Some(d)>> : d \in Snapshots})
    /\ [][/\ got' # got => got' = <<data>>
          /\ data' # data =>
               \E p \in Procs : /\ rd[p].pc = "sd_data"
                                /\ data' = FromStr(rd[p].line)
                                /\ rd'[p] # rd[p]]_vars

\* get_data returned a snapshot while a set_data call with another one is
\* between its locks
C8_Witness ==
    \E p \in Procs :
        /\ rd[p].pc = "sd_data"
        /\ got = <<data>>
        /\ IsSome(data)
        /\ FromStr(rd[p].line) # data

\* C9: while a reader is between lines, the data is the snapshot of the last
\* line it stored; and the data is none only if no set_data call has stored one.
C9_DataIsLatestAccepted ==
    /\ \A p \in Procs :
          (rd[p].pc \in {"read", "line"} /\ IsSome(rd[p].last)) => data = rd[p].last
    /\ data = None => (~accepted /\ \A p \in Procs : rd[p].last = None)

\* the reader of a restarted process has stored two lines of its own
C9_Witness ==
    \E p \in Procs :
        /\ rd[p].own = "standalone"
        /\ rd[p].mon = 3
        /\ rd[p].pc = "read"
        /\ data = rd[p].last
        /\ accepted

(* ---------------- stop ---------------- *)
\* C10: the step that ends a stop() call leaves no tracked child and the status
\* Stopped, whatever they were; and a stop() called when no child is tracked
\* and the status is Stopped, as after a first stop(), changes nothing.
C10_StopIdempotent ==
    [][/\ (main.pc = "stop" /\ main' # main) => (child' = None /\ status' = Stopped)
       /\ (main.pc \in {"done", "stop"} /\ main' # main /\ child = None /\ status = Stopped)
            => UNCHANGED <<data, status, restart_count, last_data_time, child, nprocs,
                           proc, rd>>]_vars

\* two stop() calls have returned on a manager whose spawn had failed
C10_Witness ==
    /\ stops = 2
    /\ main.pc = "done"
    /\ child = None
    /\ status = Stopped
    /\ \A p \in Procs : rd[p].pc = "none"

(* ---------------- spawning ---------------- *)
ReadersCreated == Cardinality({p \in Procs : rd[p].pc # "none"})
\* spawns that have set the status and not yet reached thread::spawn
ReadersPending == (IF main.pc = "thread" THEN 1 ELSE 0) + (IF wd.pc = "thread" THEN 1 ELSE 0)

\* C11: a successful spawn, by spawn_process or by spawn_standalone, sets the
\* status Running and creates exactly one OS process; the thread::spawn that
\* follows it creates exactly one reader, the one of that process; and the
\* readers ever created are as many as the successful spawns, those still
\* between set_status and thread::spawn apart.
C11_OneProcessOneReaderPerSpawn ==
    /\ [][oks' # oks =>
            /\ oks' = oks + 1
            /\ status' = Running
            /\ nprocs' = nprocs + 1
            /\ proc' = [proc EXCEPT ![nprocs + 1] = "alive"]
            /\ rd[nprocs + 1].pc = "none" /\ rd' = rd
            /\ \/ main'.pc = "thread" /\ main'.p = nprocs + 1 /\ wd' = wd
               \/ wd'.pc = "thread" /\ wd'.p = nprocs + 1 /\ main' = main]_vars
    /\ [][rd' # rd /\ ReadersCreated' # ReadersCreated =>
            /\ ReadersCreated' = ReadersCreated + 1
            /\ ReadersPending' = ReadersPending - 1
            /\ UNCHANGED <<nprocs, proc, oks>>
            /\ \/ main.pc = "thread" /\ rd[main.p].pc = "none" /\ rd'[main.p].pc = "read"
               \/ wd.pc = "thread" /\ rd[wd.p].pc = "none" /\ rd'[wd.p].pc = "read"]_vars
    /\ [](ReadersCreated + ReadersPending = oks)

\* three spawns have succeeded, one of them by start_sidecar, and a fourth
\* process was created by a spawn that failed to capture its stdout
C11_Witness ==
    /\ oks = 3
    /\ nprocs = 4
    /\ ReadersCreated = 3
    /\ ReadersPending = 0
    /\ \E p \in Procs : rd[p].own = "manager"
    /\ \E p \in Procs : rd[p].own = "standalone"

SpawnErrors == {SpawnFailedMsg, CaptureFailedMsg}

\* C12: a spawn that fails returns its message as an error and creates no
\* reader, tracks no child and counts as no successful spawn; its caller then
\* sets the status to Error of that very message, again without creating a
\* reader or tracking a child. For start_sidecar the manager tracks no child
\* and no reader exists when the error is handled.
C12_FailedSpawnSetsError ==
    /\ [][(main.pc = "spawn" /\ main'.pc = "fail") =>
            /\ main'.err \in SpawnErrors
            /\ UNCHANGED <<status, child, rd, oks>>]_vars
    /\ [][(wd.pc = "spawn" /\ wd'.pc = "fail") =>
            /\ wd'.err \in SpawnErrors
            /\ UNCHANGED <<status, child, rd, oks>>]_vars
    /\ [](main.pc = "fail" => (child = None /\ \A p \in Procs : rd[p].pc = "none"))
    /\ [][(main.pc = "fail" /\ main' # main) =>
            /\ status' = Error(main.err)
            /\ UNCHANGED <<child, rd, nprocs, proc, oks>>]_vars
    /\ [][(wd.pc = "fail" /\ wd' # wd) =>
            /\ status' = Error(wd.err)
            /\ UNCHANGED <<child, rd, nprocs, proc, oks>>]_vars

\* start_sidecar has handled a spawn that created a process and could not
\* capture its stdout
C12_Witness ==
    /\ main.pc = "watch"
    /\ status = Error(CaptureFailedMsg)
    /\ nprocs = 1 /\ proc[1] = "alive"
    /\ child = None
    /\ oks = 0
    /\ \A p \in Procs : rd[p].pc = "none"

(* ---------------- the end of a reader ---------------- *)
ReaderEnded(p) == rd[p].pc \in {"end", "wait", "done"}

\* C13: a reader that got end-of-stream or a read error from its stream takes
\* no further line and writes nothing to the store but the status Stopped,
\* which its next step writes whatever the status was; and, stop() apart, the
\* status becomes Stopped by that step of an ended reader only.
C13_ReaderEndSetsStopped ==
    /\ [][\A p \in Procs : (rd[p].pc = "read" /\ rd'[p].pc # "read") =>
            rd'[p].pc \in {"line", "end"}]_vars
    /\ [][\A p \in Procs : ReaderEnded(p) => ReaderEnded(p)']_vars
    /\ [][\A p \in Procs : (rd[p].pc = "end" /\ rd'[p] # rd[p]) =>
            /\ status' = Stopped
            /\ rd'[p].pc \in {"wait", "done"}
            /\ UNCHANGED <<data, restart_count, last_data_time>>]_vars
    /\ [][\A p \in Procs : (rd[p].pc \in {"wait", "done"} /\ rd'[p] # rd[p]) =>
            UNCHANGED store]_vars
    /\ [][(status' = Stopped /\ status # Stopped) =>
            \E p \in Procs : rd[p].pc = "end" /\ rd'[p].pc \in {"wait", "done"}]_vars

\* the watcher had ended on an Error status, and a reader that ended after it
\* has replaced that Error by Stopped
C13_Witness ==
    /\ wd.pc = "done"
    /\ status = Stopped
    /\ \E p \in Procs : rd[p].pc \in {"wait", "done"}

(* ---------------- SidecarStatusInfo::from ---------------- *)
\* A String is the sequence of its characters.
UpperCase == <<"A", "B", "C", "D", "E", "F", "G", "H", "I", "J", "K", "L", "M">> \o
             <<"N", "O", "P", "Q", "R", "S", "T", "U", "V", "W", "X", "Y", "Z">>
LowerCase == <<"a", "b", "c", "d", "e", "f", "g", "h", "i", "j", "k", "l", "m">> \o
             <<"n", "o", "p", "q", "r", "s", "t", "u", "v", "w", "x", "y", "z">>
\* char::to_lowercase on the characters of the model, which are ASCII
CharToLower(c) ==
    IF \E i \in DOMAIN UpperCase : UpperCase[i] = c
    THEN LowerCase[CHOOSE i \in DOMAIN UpperCase : UpperCase[i] = c]
    ELSE c
RECURSIVE to_lowercase(_)
to_lowercase(s) == IF s = <<>> THEN <<>> ELSE <<CharToLower(Head(s))>> \o to_lowercase(Tail(s))
\* str::contains with a &str pattern: pat occurs as a substring of s
contains(s, pat) ==
    \E i \in 0..(Len(s) - Len(pat)) : SubSeq(s, i + 1, i + Len(pat)) = pat

\* the patterns of the classifier
PatAdmin == <<"a", "d", "m", "i", "n">>
PatAccessDenied == <<"a", "c", "c", "e", "s", "s", " ", "d", "e", "n", "i", "e", "d">>
PatPermission == <<"p", "e", "r", "m", "i", "s", "s", "i", "o", "n">>
PatNotFound == <<"n", "o", "t", " ", "f", "o", "u", "n", "d">>
PatBinary == <<"b", "i", "n", "a", "r", "y">>

\* the variants of SidecarStatusInfo, by their serde tag and content
InfoNotStarted == [status |-> "not_started", message |-> <<>>]
InfoRunning == [status |-> "running", message |-> <<>>]
InfoStopped == [status |-> "stopped", message |-> <<>>]
InfoError(msg) == [status |-> "error", message |-> msg]
InfoRequiresAdmin == [status |-> "requires_admin", message |-> <<>>]
InfoBinaryNotFound == [status |-> "binary_not_found", message |-> <<>>]

\* the reasons the classifier is checked on: up to MaxWords of these pieces,
\* joined by single spaces
WAccessIsDenied == <<"A", "c", "c", "e", "s", "s", " ", "i", "s", " ", "d", "e", "n", "i", "e", "d">>
WAccessDenied == <<"a", "c", "c", "e", "s", "s", " ", "d", "e", "n", "i", "e", "d">>
WAdmin == <<"A", "d", "m", "i", "n">>
WPermission == <<"P", "E", "R", "M", "I", "S", "S", "I", "O", "N">>
WBinaryLower == <<"b", "i", "n", "a", "r", "y">>
WBinaryCap == <<"B", "i", "n", "a", "r", "y">>
WNotFoundLower == <<"n", "o", "t", " ", "f", "o", "u", "n", "d">>
WNotFoundUpper == <<"N", "O", "T", " ", "F", "O", "U", "N", "D">>
WDiskFull == <<"d", "i", "s", "k", " ", "f", "u", "l", "l">>
WAtX == <<"a", "t", " ", "/", "x">>
Words == {WAccessIsDenied, WAccessDenied, WAdmin, WPermission, WBinaryLower,
          WBinaryCap, WNotFoundLower, WNotFoundUpper, WDiskFull, WAtX}
RECURSIVE ReasonsOf(_)
ReasonsOf(n) ==
    IF n = 1 THEN Words
    ELSE ReasonsOf(n - 1) \cup {r \o <<" ">> \o t : r \in ReasonsOf(n - 1), t \in Words}
Reasons == ReasonsOf(MaxWords)
ClassifierInputs == {NotStarted, Running, Stopped} \cup {Error(r) : r \in Reasons}

\* impl From<&SidecarStatus> for SidecarStatusInfo
From(st) ==
    CASE st.kind = "NotStarted" -> InfoNotStarted
      [] st.kind = "Running" -> InfoRunning
      [] st.kind = "Stopped" -> InfoStopped
      [] st.kind = "Error" ->
            IF \/ contains(to_lowercase(st.msg), PatAdmin)
               \/ contains(to_lowercase(st.msg), PatAccessDenied)
               \/ contains(to_lowercase(st.msg), PatPermission)
            THEN InfoRequiresAdmin
            ELSE IF contains(st.msg, PatNotFound) \/ contains(st.msg, PatBinary)
            THEN InfoBinaryNotFound
            ELSE InfoError(st.msg)

\* a status is handed to the conversion, as get_status_info does with the stored one
InitClassify ==
    /\ InitSidecar
    /\ cls_status \in ClassifierInputs /\ cls_info = None
    /\ mrg_base = None /\ mrg_snap = None /\ mrg_stats = None
    /\ dec_line = None /\ dec_result = None

Classify ==
    /\ cls_info = None
    /\ cls_info' = Some(From(cls_status))
    /\ UNCHANGED <<data, status, restart_count, last_data_time, now, child, nprocs, proc,
                   main, rd, wd, got, stops, accepted, oks,
                   cls_status, mrg_base, mrg_snap, mrg_stats, dec_line, dec_result>>

NextClassify == Classify
SpecClassify == InitClassify /\ [][NextClassify]_vars

Classified == Unwrap(cls_info)
MatchesAdminGroup(s) ==
    contains(s, PatAdmin) \/ contains(s, PatAccessDenied) \/ contains(s, PatPermission)
MatchesBinaryGroup(s) == contains(s, PatNotFound) \/ contains(s, PatBinary)

\* C14: an Error reason that contains "admin", "access denied" or "permission"
\* in any letter case is classified RequiresAdmin, also when it matches the
\* second group; otherwise one that contains "not found" or "binary" in any
\* letter case is classified BinaryNotFound; otherwise the result is the
\* generic error with the reason unchanged.
C14_CaseInsensitiveFirstMatch ==
    (IsSome(cls_info) /\ cls_status.kind = "Error") =>
        LET low == to_lowercase(cls_status.msg) IN
        Classified = IF MatchesAdminGroup(low) THEN InfoRequiresAdmin
                     ELSE IF MatchesBinaryGroup(low) THEN InfoBinaryNotFound
                     ELSE InfoError(cls_status.msg)

ReasonAccessIsDenied == WAccessIsDenied
ReasonBinaryNotFoundAtX == WBinaryLower \o <<" ">> \o WNotFoundLower \o <<" ">> \o WAtX
ReasonDiskFull == WDiskFull

\* C15: "Access is denied" is classified RequiresAdmin, "binary not found at /x"
\* BinaryNotFound, and "disk full" the generic error carrying "disk full".
C15_ClassifierExamples ==
    IsSome(cls_info) =>
        /\ cls_status = Error(ReasonAccessIsDenied) => Classified = InfoRequiresAdmin
        /\ cls_status = Error(ReasonBinaryNotFoundAtX) => Classified = InfoBinaryNotFound
        /\ cls_status = Error(ReasonDiskFull) => Classified = InfoError(ReasonDiskFull)

(* ---------------- the merge of start_stats_emitter (lib.rs) ---------------- *)
\* An f32 of the statistics is written in tenths: Deci(70, 5) is 70.5.
Deci(whole, tenth) == whole * 10 + tenth
\* `x as u32` on an f32: the fraction is dropped and a negative value gives 0
AsU32(x) == IF x < 0 THEN 0 ELSE x \div 10
\* the u32 n as the f32 of the same value
U32AsF32(n) == Deci(n, 0)

\* the f32 readings a snapshot is given in the model
Readings == {Deci(70, 0), Deci(70, 5)}
OptionOf(S) == {None} \cup {Some(v) : v \in S}

\* SidecarData, SidecarCpuData and SidecarGpuData as services/mod.rs declares them
SidecarCpuDatas == [temperature : OptionOf(Readings)]
SidecarGpuDatas == [temperature : OptionOf(Readings), fan_percent : OptionOf(Readings)]
SidecarDatas == [cpu : OptionOf(SidecarCpuDatas), gpu : OptionOf(SidecarGpuDatas)]

\* SystemStats as monitor.get_system_stats() returns it
CpuStatsOf(temp) ==
    [name |-> "Intel Core i5", usage |-> Deci(12, 5), frequency |-> 3600, cores |-> 4,
     logical_cores |-> 8, per_core_usage |-> <<Deci(10, 0), Deci(15, 0)>>,
     temperature |-> temp]
GpuStatsOf(temp, fan) ==
    [name |-> "RTX", usage |-> Deci(30, 0), memory_total |-> 8192, memory_used |-> 1024,
     temperature |-> temp, fan_speed |-> fan]
RamStats == [total |-> 16384, used |-> 8192, available |-> 8192, usage_percent |-> Deci(50, 0)]
SystemStatsOf(cpu, gpu) ==
    [cpu |-> cpu, ram |-> RamStats, gpu |-> gpu, system_info |-> "host",
     processes |-> <<"init">>, timestamp |-> 1000]
Baselines ==
    {SystemStatsOf(CpuStatsOf(ct), g) :
        ct \in OptionOf({Deci(45, 5)}),
        g \in OptionOf({GpuStatsOf(gt, gf) : gt \in OptionOf({55}), gf \in OptionOf({40})})}

\* the merge letting the snapshot's fan speed win over the baseline's
Merge_FanFromSnapshot(stats, sidecar_data) ==
    IF ~IsSome(sidecar_data) THEN stats
    ELSE LET sd == Unwrap(sidecar_data)
             s1 == IF IsSome(sd.cpu) /\ IsSome(Unwrap(sd.cpu).temperature)
                   THEN [stats EXCEPT !.cpu.temperature = Some(Unwrap(Unwrap(sd.cpu).temperature))]
                   ELSE stats
         IN  IF IsSome(sd.gpu) /\ IsSome(s1.gpu)
             THEN LET gd == Unwrap(sd.gpu)
                      g0 == Unwrap(s1.gpu)
                      g1 == IF IsSome(gd.temperature)
                            THEN [g0 EXCEPT !.temperature = Some(AsU32(Unwrap(gd.temperature)))]
                            ELSE g0
                      g2 == IF IsSome(gd.fan_percent)
                            THEN [g1 EXCEPT !.fan_speed = Some(AsU32(Unwrap(gd.fan_percent)))]
                            ELSE g1
                  IN  [s1 EXCEPT !.gpu = Some(g2)]
             ELSE s1
\* the merge taking the snapshot's GPU temperature only where the baseline has none
Merge_TempOnlyIfAbsent(stats, sidecar_data) ==
    IF ~IsSome(sidecar_data) THEN stats
    ELSE LET sd == Unwrap(sidecar_data)
             s1 == IF IsSome(sd.cpu) /\ IsSome(Unwrap(sd.cpu).temperature)
                   THEN [stats EXCEPT !.cpu.temperature = Some(Unwrap(Unwrap(sd.cpu).temperature))]
                   ELSE stats
         IN  IF IsSome(sd.gpu) /\ IsSome(s1.gpu)
             THEN LET gd == Unwrap(sd.gpu)
                      g0 == Unwrap(s1.gpu)
                      g1 == IF IsSome(gd.temperature) /\ g0.temperature = None
                            THEN [g0 EXCEPT !.temperature = Some(AsU32(Unwrap(gd.temperature)))]
                            ELSE g0
                      g2 == IF g1.fan_speed = None /\ IsSome(gd.fan_percent)
                            THEN [g1 EXCEPT !.fan_speed = Some(AsU32(Unwrap(gd.fan_percent)))]
                            ELSE g1
                  IN  [s1 EXCEPT !.gpu = Some(g2)]
             ELSE s1
\* the merge stamping the statistics with a snapshot it used
Merge_Restamps(stats, sidecar_data) ==
    IF ~IsSome(sidecar_data) THEN stats
    ELSE LET sd == Unwrap(sidecar_data)
             s1 == IF IsSome(sd.cpu) /\ IsSome(Unwrap(sd.cpu).temperature)
                   THEN [stats EXCEPT !.cpu.temperature = Some(Unwrap(Unwrap(sd.cpu).temperature)),
                                      !.timestamp = stats.timestamp + 1]
                   ELSE stats
         IN  IF IsSome(sd.gpu) /\ IsSome(s1.gpu)
             THEN LET gd == Unwrap(sd.gpu)
                      g0 == Unwrap(s1.gpu)
                      g1 == IF IsSome(gd.temperature)
                            THEN [g0 EXCEPT !.temperature = Some(AsU32(Unwrap(gd.temperature)))]
                            ELSE g0
                      g2 == IF g1.fan_speed = None /\ IsSome(gd.fan_percent)
                            THEN [g1 EXCEPT !.fan_speed = Some(AsU32(Unwrap(gd.fan_percent)))]
                            ELSE g1
                  IN  [s1 EXCEPT !.gpu = Some(g2)]
             ELSE s1
\* start_stats_emitter, the statements between get_system_stats and app.emit:
\* stats is assigned field by field from the snapshot get_data returned
Merge(stats, sidecar_data) ==
    IF ~IsSome(sidecar_data) THEN stats
    ELSE LET sd == Unwrap(sidecar_data)
             s1 == IF IsSome(sd.cpu) /\ IsSome(Unwrap(sd.cpu).temperature)
                   THEN [stats EXCEPT !.cpu.temperature = Some(Unwrap(Unwrap(sd.cpu).temperature))]
                   ELSE stats
         IN  IF IsSome(sd.gpu) /\ IsSome(s1.gpu)
             THEN LET gd == Unwrap(sd.gpu)
                      g0 == Unwrap(s1.gpu)
                      g1 == IF IsSome(gd.temperature)
                            THEN [g0 EXCEPT !.temperature = Some(AsU32(Unwrap(gd.temperature)))]
                            ELSE g0
                      g2 == IF g1.fan_speed = None /\ IsSome(gd.fan_percent)
                            THEN [g1 EXCEPT !.fan_speed = Some(AsU32(Unwrap(gd.fan_percent)))]
                            ELSE g1
                  IN  [s1 EXCEPT !.gpu = Some(g2)]
             ELSE s1

\* one round of the emitter's loop: the statistics and the snapshot it got
InitMerge ==
    /\ InitSidecar
    /\ cls_status = None /\ cls_info = None
    /\ mrg_base \in Baselines /\ mrg_snap \in OptionOf(SidecarDatas) /\ mrg_stats = None
    /\ dec_line = None /\ dec_result = None

EmitStats ==
    /\ mrg_stats = None
    /\ mrg_stats' = Some(Merge(mrg_base, mrg_snap))
    /\ UNCHANGED <<data, status, restart_count, last_data_time, now, child, nprocs, proc,
                   main, rd, wd, got, stops, accepted, oks,
                   cls_status, cls_info, mrg_base, mrg_snap, dec_line, dec_result>>

NextMerge == EmitStats
SpecMerge == InitMerge /\ [][NextMerge]_vars

(* ---------------- C16 to C18: what the merge emits ---------------- *)
Emitted == Unwrap(mrg_stats)
\* the GPU entry's readings of the snapshot, None where it has no GPU entry
SnapGpuTemperature ==
    IF IsSome(Unwrap(mrg_snap).gpu) THEN Unwrap(Unwrap(mrg_snap).gpu).temperature ELSE None
SnapFan ==
    IF IsSome(Unwrap(mrg_snap).gpu) THEN Unwrap(Unwrap(mrg_snap).gpu).fan_percent ELSE None
SnapCpuTemperature ==
    IF IsSome(Unwrap(mrg_snap).cpu) THEN Unwrap(Unwrap(mrg_snap).cpu).temperature ELSE None
\* a snapshot was merged into statistics that have a GPU record
MergedWithGpu == IsSome(mrg_stats) /\ IsSome(mrg_snap) /\ IsSome(mrg_base.gpu)

\* C16 as claimed: with a snapshot and a baseline GPU record, the merged fan
\* speed is the baseline's when the baseline has one, and otherwise equals the
\* snapshot's fan speed.
C16_Original ==
    MergedWithGpu =>
        /\ IsSome(Emitted.gpu)
        /\ LET base == Unwrap(mrg_base.gpu).fan_speed
               out == Unwrap(Emitted.gpu).fan_speed
           IN  IF IsSome(base) THEN out = base
               ELSE IF IsSome(SnapFan)
                    THEN IsSome(out) /\ U32AsF32(Unwrap(out)) = Unwrap(SnapFan)
                    ELSE out = None

\* C16: with a snapshot and a baseline GPU record, the merged fan speed is the
\* baseline's when the baseline has one (40 and 70 give 40); otherwise it is
\* the snapshot's fan speed converted by `as u32`, its fraction dropped (none
\* and 70 give 70, none and 70.5 give 70), and none when the snapshot has none.
C16_FanSpeedBaselineFirst ==
    MergedWithGpu =>
        /\ IsSome(Emitted.gpu)
        /\ LET base == Unwrap(mrg_base.gpu).fan_speed
               out == Unwrap(Emitted.gpu).fan_speed
           IN  IF IsSome(base) THEN out = base
               ELSE IF IsSome(SnapFan)
                    THEN out = Some(AsU32(Unwrap(SnapFan)))
                    ELSE out = None

\* the baseline has no fan speed and the snapshot's 70.5 was merged as 70
C16_Witness ==
    /\ MergedWithGpu
    /\ Unwrap(mrg_base.gpu).fan_speed = None
    /\ SnapFan = Some(Deci(70, 5))
    /\ Unwrap(Emitted.gpu).fan_speed = Some(70)

WithoutMergedFields(s) ==
    [s EXCEPT !.cpu.temperature = None,
              !.gpu = IF IsSome(s.gpu)
                      THEN Some([Unwrap(s.gpu) EXCEPT !.temperature = None, !.fan_speed = None])
                      ELSE None]

\* C18: without a snapshot the merge emits the baseline, equal in every field;
\* with one it changes nothing but the CPU temperature, the GPU temperature
\* and the GPU fan speed.
C18_MergeFrame ==
    IsSome(mrg_stats) =>
        IF IsSome(mrg_snap)
        THEN WithoutMergedFields(Emitted) = WithoutMergedFields(mrg_base)
        ELSE Emitted = mrg_base

\* a snapshot changed all three fields and nothing else
C18_Witness ==
    /\ MergedWithGpu
    /\ Emitted.cpu.temperature # mrg_base.cpu.temperature
    /\ Unwrap(Emitted.gpu).temperature # Unwrap(mrg_base.gpu).temperature
    /\ Unwrap(Emitted.gpu).fan_speed # Unwrap(mrg_base.gpu).fan_speed
    /\ IsSome(mrg_base.cpu.temperature)
    /\ Emitted.cpu.usage = mrg_base.cpu.usage
    /\ Emitted.timestamp = mrg_base.timestamp

(* ---------------- serde_json::from_str::<SidecarData> on its own ---------------- *)
\* members of the lines the decoder is checked on: blocks with every sub-field,
\* with none, and with numbers that are not f32 values
CpuBare == [name |-> None, temperature |-> None, package_temperature |-> None,
            core_temperatures |-> None, max_temperature |-> None, power |-> None,
            core_powers |-> None]
CpuFull == [name |-> Some("Intel Core i5"), temperature |-> Some(65),
            package_temperature |-> Some(65), core_temperatures |-> Some(<<Some(60), Some(62)>>),
            max_temperature |-> Some(90), power |-> Some(16777217),
            core_powers |-> Some(<<None, Some(7)>>)]
GpuBare == [name |-> None, vendor |-> None, temperature |-> None,
            hot_spot_temperature |-> None, power |-> None, core_clock |-> None,
            memory_clock |-> None, fan_speed |-> None, load |-> None]
GpuFull == [name |-> Some("RTX"), vendor |-> Some("NVIDIA"), temperature |-> Some(70),
            hot_spot_temperature |-> Some(82), power |-> Some(120), core_clock |-> Some(1800),
            memory_clock |-> Some(16777219), fan_speed |-> Some(70), load |-> Some(12)]
DecodeLines ==
    {[pad |-> pd, text |-> "object",
      obj |-> [cpu |-> c, gpu |-> g, timestamp |-> t, error |-> e]] :
        pd \in BOOLEAN,
        c \in {None, Some(CpuA), Some(CpuBare), Some(CpuFull)},
        g \in {None, Some(<<>>), Some(<<GpuB>>), Some(<<GpuBare, GpuFull>>)},
        t \in {None, Some(1234567890)},
        e \in {None, Some(<<"Admin rights required">>)}}
    \cup {LineBlank, LineGarbage}

InitDecode ==
    /\ InitSidecar
    /\ cls_status = None /\ cls_info = None
    /\ mrg_base = None /\ mrg_snap = None /\ mrg_stats = None
    /\ dec_line \in DecodeLines /\ dec_result = None

Decode ==
    /\ dec_result = None
    /\ dec_result' = Some(FromStr(dec_line))
    /\ UNCHANGED <<data, status, restart_count, last_data_time, now, child, nprocs, proc,
                   main, rd, wd, got, stops, accepted, oks,
                   cls_status, cls_info, mrg_base, mrg_snap, mrg_stats, dec_line>>

NextDecode == Decode
SpecDecode == InitDecode /\ [][NextDecode]_vars

\* a line from_str accepts: a JSON object with the required timestamp
StructurallyValid(line) == line.text = "object" /\ IsSome(line.obj.timestamp)
Decoded == Unwrap(Unwrap(dec_result))
CpuNumbers == {"temperature", "package_temperature", "max_temperature", "power"}
CpuVectors == {"core_temperatures", "core_powers"}
GpuStrings == {"name", "vendor"}
GpuNumbers == {"temperature", "hot_spot_temperature", "power", "core_clock",
               "memory_clock", "fan_speed", "load"}
\* a value of the line as it is, or rounded as a number decoded to f32 is
ValueAs(x, rounded) == IF rounded THEN F32(x) ELSE x
\* values v of a wire member and w of the decoded field, both optional, are
\* both absent, or both present and w is v, as it is or rounded
Kept(v, w, rounded) == IF IsSome(v) THEN w = Some(ValueAs(Unwrap(v), rounded)) ELSE w = None
KeptVector(v, w, rounded) ==
    IF IsSome(v)
    THEN /\ Len(w) = Len(Unwrap(v))
         /\ \A i \in 1..Len(w) : Kept(Unwrap(v)[i], w[i], rounded)
    ELSE w = <<>>
\* the decoded snapshot has the line's string, timestamp and error values, and
\* its numbers as they are or rounded; what the line lacks is absent or empty
DecodedAs(line, d, rounded) ==
    /\ d.timestamp = Unwrap(line.obj.timestamp)
    /\ Kept(line.obj.error, d.error, FALSE)
    /\ IsSome(line.obj.cpu) = IsSome(d.cpu)
    /\ IsSome(line.obj.cpu) =>
          LET c == Unwrap(line.obj.cpu)
              dc == Unwrap(d.cpu)
          IN  /\ Kept(c.name, dc.name, FALSE)
              /\ \A f \in CpuNumbers : Kept(c[f], dc[f], rounded)
              /\ \A f \in CpuVectors : KeptVector(c[f], dc[f], rounded)
    /\ IF IsSome(line.obj.gpu)
       THEN /\ Len(d.gpu) = Len(Unwrap(line.obj.gpu))
            /\ \A i \in 1..Len(d.gpu) :
                  LET g == Unwrap(line.obj.gpu)[i]
                      dg == d.gpu[i]
                  IN  /\ \A f \in GpuStrings : Kept(g[f], dg[f], FALSE)
                      /\ \A f \in GpuNumbers : Kept(g[f], dg[f], rounded)
       ELSE d.gpu = <<>>

\* C19 as claimed: a structurally valid line decodes, every present field with
\* exactly its value and every absent one to no value.
C19_Original ==
    (IsSome(dec_result) /\ StructurallyValid(dec_line)) =>
        /\ IsSome(Unwrap(dec_result))
        /\ DecodedAs(dec_line, Decoded, FALSE)

\* C19: a structurally valid line decodes; every present string, the timestamp
\* and the error are decoded with exactly their value, every present number of
\* a cpu or gpu block as the f32 nearest to it (itself when it is an f32);
\* every absent optional field (cpu, a sub-field of cpu or of a gpu entry,
\* error) is decoded to no value and an absent sequence to the empty one. So a
\* line with an empty gpu sequence and no cpu decodes, and a line with an
\* error decodes with that error.
C19_DecodePreservesFields ==
    (IsSome(dec_result) /\ StructurallyValid(dec_line)) =>
        /\ IsSome(Unwrap(dec_result))
        /\ DecodedAs(dec_line, Decoded, TRUE)

\* the line of test_parse_error_json, an empty gpu sequence and no cpu, was
\* decoded with its error
C19_Witness ==
    /\ IsSome(dec_result)
    /\ dec_line.obj.cpu = None
    /\ dec_line.obj.gpu = Some(<<>>)
    /\ dec_line.obj.error = Some(<<"Admin rights required">>)
    /\ IsSome(Unwrap(dec_result))
    /\ Decoded.cpu = None /\ Decoded.gpu = <<>>
    /\ Decoded.error = Some(<<"Admin rights required">>)

(* ---------------- the fresh store ---------------- *)
\* start_sidecar has constructed the store and done nothing else yet
Fresh == main.pc = "path"

\* C20: the store as constructed has no data, the status NotStarted, the
\* restart counter 0 and is not stalled, at whatever time it is asked, and a
\* get_data on it returns none; and as long as no set_data call has stored its
\* snapshot the data is none and every get_data has returned none.
C20_FreshStore ==
    /\ Fresh =>
          /\ data = None
          /\ status = NotStarted
          /\ restart_count = 0
          /\ ~is_stalled(last_data_time, now)
    /\ ~accepted =>
          /\ data = None
          /\ got \in {<<>>, <<None>>}

\* time has passed and get_data was called on the store as constructed
C20_Witness ==
    /\ Fresh
    /\ now = MaxTime
    /\ got = <<None>>
    /\ data = None /\ status = NotStarted /\ restart_count = 0
    /\ ~is_stalled(last_data_time, now)

(* ---------------- the stall test ---------------- *)
\* time passes, for as long as the stall test is followed
StallTick ==
    /\ now < MaxStallTicks
    /\ now' = now + 1
    /\ UNCHANGED <<data, status, restart_count, last_data_time, child, nprocs, proc,
                   main, rd, wd, got, stops, accepted, oks, pure>>

\* SidecarState::set_data called by the only thread that writes the store
SetDataCall(d) ==
    /\ status' = IF IsSome(d.error) THEN Error(Unwrap(d.error)) ELSE status
    /\ last_data_time' = Some(now)
    /\ data' = Some(d)
    /\ accepted' = TRUE
    /\ UNCHANGED <<restart_count, now, child, nprocs, proc,
                   main, rd, wd, got, stops, oks, pure>>

\* a store fed by one thread while the clock runs
NextStall ==
    \/ StallTick
    \/ \E d \in Snapshots : SetDataCall(d)

SpecStall == Init /\ [][NextStall]_vars

\* the time since the most recent set_data, in clock ticks
Age == now - Unwrap(last_data_time)

\* C21: is_stalled() is true exactly when a snapshot has been accepted and
\* more than 10 seconds have passed since the most recent set_data, so that an
\* age of 10.5 seconds is stalled; it is false when no snapshot was ever
\* accepted; and every set_data call restarts the age from zero.
C21_StalledIffOlderThanTenSeconds ==
    /\ [](is_stalled(last_data_time, now) <=>
            (accepted /\ IsSome(last_data_time)
               /\ Age > STALL_TIMEOUT_SECS * TicksPerSecond))
    /\ [](~accepted => ~is_stalled(last_data_time, now))
    /\ [][accepted' /\ (data' # data \/ last_data_time' # last_data_time) =>
            last_data_time' = Some(now')]_vars

(* ---------------- the watcher's arms ---------------- *)
\* C22: a poll of the watcher that reads an Error status ends the watcher and
\* changes neither the status nor the counter and spawns nothing; and once
\* the watcher has ended, no restart is attempted, the counter and the
\* processes stay as they are, also when the status becomes Stopped later.
C22_ErrorPollEndsWatcher ==
    /\ [][(wd.pc = "poll" /\ status.kind = "Error" /\ wd' # wd) =>
            /\ wd'.pc = "done"
            /\ UNCHANGED <<status, restart_count, nprocs, proc, rd, child>>]_vars
    /\ [][wd.pc = "done" =>
            /\ wd' = wd
            /\ restart_count' = restart_count
            /\ nprocs' = nprocs
            /\ \A p \in Procs : rd[p].pc = "none" => rd'[p].pc = "none"]_vars

\* the watcher ended on an Error poll with budget left, and the status has
\* become Stopped since
C22_Witness ==
    /\ wd.pc = "done"
    /\ restart_count < MAX_RESTART_ATTEMPTS
    /\ status = Stopped
    /\ nprocs < MaxProcs

\* the watcher is between a poll that read Stopped and its next poll
InStoppedArm == wd.pc \in {"can", "inc", "spawn", "fail", "thread", "giveup"}

\* C23: a poll that reads Stopped goes to can_restart, which is true exactly
\* for a counter below 3. Then the watcher increments the counter by one and
\* makes one spawn attempt, which creates at most one process, before it polls
\* again, on the path start_sidecar resolved; with the counter at 3 it goes to
\* its end without a spawn. Nobody else changes the counter meanwhile.
C23_StoppedArmOneIncrementOneSpawn ==
    /\ [][(wd.pc = "poll" /\ status = Stopped /\ wd' # wd) =>
            wd'.pc = "can" /\ UNCHANGED <<restart_count, nprocs>>]_vars
    /\ [][(wd.pc = "can" /\ wd' # wd) =>
            /\ wd'.pc = IF restart_count < MAX_RESTART_ATTEMPTS THEN "inc" ELSE "giveup"
            /\ UNCHANGED <<restart_count, nprocs>>]_vars
    /\ [][(wd.pc = "inc" /\ wd' # wd) =>
            /\ restart_count' = restart_count + 1
            /\ wd'.pc = "spawn"
            /\ nprocs' = nprocs]_vars
    /\ [][(wd.pc = "spawn" /\ wd' # wd) =>
            /\ wd'.pc \in {"fail", "thread"}
            /\ nprocs' \in {nprocs, nprocs + 1}
            /\ restart_count' = restart_count]_vars
    /\ [][(wd.pc \in {"fail", "thread"} /\ wd' # wd) =>
            wd'.pc = "poll" /\ UNCHANGED <<restart_count, nprocs>>]_vars
    /\ [][(wd.pc = "giveup" /\ wd' # wd) =>
            wd'.pc = "done" /\ UNCHANGED <<restart_count, nprocs>>]_vars
    /\ [][(InStoppedArm /\ wd' = wd) => UNCHANGED <<restart_count, nprocs>>]_vars
    /\ [](wd.pc = "giveup" => restart_count = MAX_RESTART_ATTEMPTS)
    /\ [](InStoppedArm => main.path)

\* the watcher read Stopped with the counter at 3 and is about to give up,
\* three restarts having created a process each
C23_Witness ==
    /\ wd.pc = "giveup"
    /\ restart_count = MAX_RESTART_ATTEMPTS
    /\ nprocs = 4
    /\ oks = 4

\* C24: when the spawn of a restart has failed, the watcher sets the status to
\* Error of the spawn's message and goes on to its next poll, not to its end;
\* the counter keeps the value the increment before the spawn gave it.
C24_FailedRestartKeepsPolling ==
    /\ [][(wd.pc = "spawn" /\ wd'.pc = "fail") =>
            wd'.err \in SpawnErrors /\ UNCHANGED <<status, restart_count>>]_vars
    /\ [](wd.pc = "fail" => restart_count \in 1..MAX_RESTART_ATTEMPTS)
    /\ [][(wd.pc = "fail" /\ wd' # wd) =>
            /\ status' = Error(wd.err)
            /\ wd'.pc = "poll"
            /\ restart_count' = restart_count]_vars

\* the second restart failed to spawn; the watcher has set the Error and is
\* back at its poll with the counter at 2
C24_Witness ==
    /\ wd.pc = "poll"
    /\ status = Error(SpawnFailedMsg)
    /\ restart_count = 2
    /\ wd.seen = 2

(* ---------------- resets of the restart counter ---------------- *)
\* a step that calls reset_restart_count
ResetStep == (wd.pc = "reset" /\ wd' # wd) \/ (main.pc = "reset" /\ main' # main)
\* who resets, and after what: the watcher after a poll that read Running and
\* a counter read above 0, start_sidecar after spawn_process returned Ok; a
\* successful restart by the watcher resets nothing
ResetsOnlyAfterRunningPollOrInitialSpawn ==
    /\ [][ResetStep => restart_count' = 0]_vars
    /\ [][restart_count' < restart_count => (wd.pc = "reset" /\ wd' # wd)]_vars
    /\ [][(wd.pc = "poll" /\ status = Running /\ wd' # wd) => wd'.pc = "count"]_vars
    /\ [][(wd.pc # "count" /\ wd'.pc = "count") => (wd.pc = "poll" /\ status = Running)]_vars
    /\ [][(wd.pc = "count" /\ wd' # wd) =>
            wd'.pc = IF restart_count > 0 THEN "reset" ELSE "poll"]_vars
    /\ [][(wd.pc # "reset" /\ wd'.pc = "reset") => (wd.pc = "count" /\ restart_count > 0)]_vars
    /\ [][(main.pc # "reset" /\ main'.pc = "reset") => main.pc = "thread"]_vars
    /\ [][(wd.pc \in {"spawn", "thread"} /\ wd' # wd) => restart_count' = restart_count]_vars

\* C25 as claimed: the counter is reset by the watcher after a poll of Running
\* with a nonzero counter and by start_sidecar after a successful initial
\* spawn, by nothing else, not by a successful restart, and never at a moment
\* when the status is Stopped or Error.
C25_Original ==
    /\ ResetsOnlyAfterRunningPollOrInitialSpawn
    /\ [][ResetStep => status.kind \notin {"Stopped", "Error"}]_vars

\* C25: the counter is reset by the watcher after a poll of Running with a
\* nonzero counter and by start_sidecar after a successful initial spawn, by
\* nothing else and not by a successful restart; the status is Running when
\* the watcher polls it, or when spawn_process sets it, and may be Stopped or
\* Error by the moment the counter is written.
C25_ResetAfterRunningPollOrInitialSpawn ==
    /\ ResetsOnlyAfterRunningPollOrInitialSpawn
    /\ [][ResetStep => status.kind \in {"Running", "Stopped", "Error"}]_vars

\* the watcher has reset the counter after a restart and polls again
C25_Witness ==
    /\ wd.pc = "poll"
    /\ wd.seen > 0
    /\ wd.run = 0
    /\ restart_count = 0
    /\ status = Running

(* ---------------- processes and readers alive ---------------- *)
ProcsAlive == {p \in Procs : proc[p] = "alive"}
\* reader threads that have not returned, those blocked in child.wait() included
ReaderThreads == {p \in Procs : rd[p].pc \notin {"none", "done"}}

\* C26: in the system start_sidecar starts, at most one sidecar process and at
\* most one reader thread are alive at any time, and the watcher spawns a
\* process only when every reader started before has left its loop and
\* written Stopped.
C26_AtMostOneProcessAndReader ==
    /\ [](Cardinality(ProcsAlive) <= 1)
    /\ [](Cardinality(ReaderThreads) <= 1)
    /\ [][(wd.pc = "spawn" /\ nprocs' # nprocs) =>
            \A p \in Procs : rd[p].pc \in {"none", "wait", "done"}]_vars

(* ---------------- a failed initial spawn ---------------- *)
\* start_sidecar is past its match and no spawn has returned Ok
InitialSpawnFailed == main.pc \in {"watch", "done"} /\ oks = 0

\* C27: after a failed initial spawn no restart is ever attempted: with the
\* path unresolved the watcher is never started, with the path resolved the
\* watcher's first poll reads Error and ends it; the status stays Error and the
\* restart counter stays 0.
C27_FailedInitialSpawnNeverRestarts ==
    /\ [](InitialSpawnFailed =>
            /\ status.kind = "Error"
            /\ restart_count = 0
            /\ wd.pc \in {"idle", "poll", "done"}
            /\ wd.seen = 0
            /\ (~main.path => wd.pc = "idle")
            /\ \A p \in Procs : rd[p].pc = "none")
    /\ [][(InitialSpawnFailed /\ wd.pc = "poll" /\ wd' # wd) => wd'.pc = "done"]_vars
    /\ [][InitialSpawnFailed => (InitialSpawnFailed' /\ nprocs' = nprocs
                                  /\ status' = status)]_vars

\* the path was resolved, the spawn failed, and the watcher has ended
C27_Witness ==
    /\ InitialSpawnFailed /\ main.path /\ main.pc = "done"
    /\ wd.pc = "done" /\ status = Error(SpawnFailedMsg)

(* ---------------- accepting a line without an error member ---------------- *)
\* reader p ends set_data for a snapshot that carries no error
AcceptsClean(p) ==
    /\ rd[p].pc = "sd_data" /\ rd'[p].pc = "read"
    /\ ~IsSome(Held(p).error)

\* C28: when a reader has accepted a line with no error member the status is
\* Running, whatever it was when the line arrived, and the stored snapshot is that
\* line; a reader writes Running exactly when the status it read was not Running.
C28_CleanLineLeavesRunning ==
    /\ [][\A p \in Procs : AcceptsClean(p) =>
            /\ status' = Running
            /\ data' = Some(Held(p))]_vars
    /\ [][\A p \in Procs : (rd[p].pc = "check" /\ rd'[p] # rd[p]) =>
            (rd'[p].pc = "setrun" <=> status # Running)]_vars
    /\ [][\A p \in Procs : (rd[p].pc = "setrun" /\ rd'[p] # rd[p]) =>
            status' = Running]_vars
    /\ [][\A p \in Procs : (rd[p].pc # "setrun" /\ rd'[p] # rd[p]) =>
            (status' = Running => status = Running)]_vars

\* the watcher ended on an Error that an error line had written, and a later line
\* without an error has been accepted
C28_Witness ==
    /\ wd.pc = "done" /\ restart_count < MAX_RESTART_ATTEMPTS
    /\ status = Running
    /\ IsSome(data) /\ ~IsSome(Unwrap(data).error)
    /\ \E p \in Procs : rd[p].pc = "read" /\ rd[p].last = data

(* ---------------- Running and the readers ---------------- *)
\* a spawn has written Running and is about to start its reader thread
ReaderStarting == main.pc = "thread" \/ wd.pc = "thread"

\* C29: in the system start_sidecar starts, while the status is Running a reader
\* thread is in its loop or about to write its final Stopped, or the spawn that
\* wrote Running is about to start its reader; a spawn writes Running while its
\* reader does not exist yet, and once every reader has ended and none is being
\* started the status is not Running.
C29_RunningHasReader ==
    /\ [](status = Running => (AliveReaders # {} \/ ReaderStarting))
    /\ [][(status' = Running /\ (main.pc = "spawn" \/ wd.pc = "spawn")
           /\ nprocs' # nprocs) =>
            /\ ReaderStarting'
            /\ rd'[nprocs'].pc = "none"]_vars
    /\ [][\A p \in Procs : (rd[p].pc = "end" /\ rd'[p].pc # "end") =>
            status' = Stopped]_vars

\* the only reader has ended after the watcher gave up polling: the status is
\* Stopped and stays so
C29_Witness ==
    /\ oks > 0 /\ AliveReaders = {} /\ ~ReaderStarting
    /\ status = Stopped /\ wd.pc = "done" /\ main.pc = "done"

(* ---------------- the status and the snapshot seen together ---------------- *)
\* the messages an accepted line's error member can carry
ErrorLineMessages == {Unwrap(d.error) : d \in {s \in Snapshots : IsSome(s.error)}}

\* C30: whenever get_status() returns Error(msg) for the msg of a sidecar error
\* line, get_data() at that moment returns the snapshot whose error member is
\* msg: the error status is never visible before the snapshot that carries it.
C30_ErrorStatusHasItsSnapshot ==
    (status.kind = "Error" /\ status.msg \in ErrorLineMessages) =>
        (IsSome(data) /\ Unwrap(data).error = Some(status.msg))

(* ---------------- what stop() reaches ---------------- *)
\* the processes stop() kills and waits for: the child the manager tracks
Tracked == {p \in Procs : child = Some(p)}
\* the live processes whose stdout a reader thread has been given
Supervised == {p \in ProcsAlive : rd[p].pc # "none"}

\* C31: stop() controls every sidecar process the system has spawned, so every
\* live process with a reader is the child the manager tracks, the one stop()
\* kills and waits for; and no thread other than the manager's waits on a child
\* process.
C31_StopControlsEveryProcess ==
    /\ [](Supervised \subseteq Tracked)
    /\ [](\A p \in Procs : rd[p].pc # "wait")

(* ---------------- restart attempts between resets ---------------- *)
\* the watcher is in a spawn attempt of a restart, or has just returned from it
AttemptingRestart == wd.pc \in {"spawn", "thread", "fail"}
\* the watcher thread exists
WatcherStarted == wd.pc # "idle"
\* the watcher is in the Running arm of its match
ObservedRunning == wd.pc \in {"count", "reset"}
\* the watcher has left its loop through the Error arm, not the give-up arm
EndedOnErrorPoll == wd.pc = "done" /\ status # Error(GiveUpMsg)
\* every reader thread that is started reaches the end of its stream
EveryProcessStops == []<>(AliveReaders = {})
\* the watcher has ended in the give-up arm after four polls that read Stopped,
\* of which the first three made a restart attempt each
GaveUpAfterThree ==
    /\ wd.pc = "done"
    /\ status = Error(GiveUpMsg)
    /\ restart_count = MAX_RESTART_ATTEMPTS
    /\ wd.seen = MAX_RESTART_ATTEMPTS + 1

\* each restart attempt follows its own poll that read Stopped, and since the
\* last reset of the counter (or the start) at most 3 such polls led to one
AtMostThreeAttemptsPerRun ==
    /\ [](wd.run \in 0..(MAX_RESTART_ATTEMPTS + 1))
    /\ [](AttemptingRestart => (wd.run <= MAX_RESTART_ATTEMPTS /\ restart_count = wd.run))
    /\ [](wd.run = MAX_RESTART_ATTEMPTS + 1 => wd.pc \in {"can", "giveup", "done"})
    /\ [][(AttemptingRestart' /\ ~AttemptingRestart) => wd.pc = "inc"]_vars
    /\ [][wd'.run # wd.run =>
            \/ (wd.pc = "poll" /\ status = Stopped /\ wd'.run = wd.run + 1)
            \/ (wd.pc = "reset" /\ restart_count' = 0 /\ wd'.run = 0)]_vars

\* C32 as stated: at most 3 restart attempts between two resets of the counter;
\* and if the watcher never observes Running and every spawned process stops,
\* the watcher, scheduled fairly, ends with the give-up Error after exactly 3
\* restart attempts.
C32_Original ==
    /\ AtMostThreeAttemptsPerRun
    /\ (<>WatcherStarted /\ []~ObservedRunning /\ EveryProcessStops)
          => <>GaveUpAfterThree

\* C32 amended: the same, provided the watcher also never observes an Error
\* status, which ends it at once.
C32_ThreeAttemptsThenGiveUp ==
    /\ AtMostThreeAttemptsPerRun
    /\ (<>WatcherStarted /\ []~ObservedRunning /\ []~EndedOnErrorPoll /\ EveryProcessStops)
          => <>GaveUpAfterThree

\* the watcher has given up after three restarts, each of which created a process
\* whose reader has ended, without a reset of the counter
C32_Witness ==
    /\ GaveUpAfterThree
    /\ wd.run = MAX_RESTART_ATTEMPTS + 1
    /\ oks = MAX_RESTART_ATTEMPTS + 1
    /\ AliveReaders = {}
    /\ accepted

====
